---- MODULE Spec2Model ----
(***************************************************************************)
(* scanparse (pa1/src/main.rs): a line scanner, an LL(1) recursive-descent *)
(* parser for                                                              *)
(*     EXPR -> TERM EXPRDASH        EXPRDASH -> '+' TERM EXPRDASH | eps    *)
(*     TERM -> FACTOR TERMDASH      TERMDASH -> '*' FACTOR TERMDASH | eps  *)
(*     FACTOR -> '(' EXPR ')' | IDENTIFIER | NUMBER                        *)
(* a two-queue breadth-first renderer of the parse tree, and the driver    *)
(* loop of main that runs the three on every line of a file.               *)
(*                                                                         *)
(* A char is a one-character string; a line (Vec<char>) is a sequence of   *)
(* chars; a String is a TLA+ string, grown with \o as the code grows it    *)
(* with push / push_str / format!.  Cursors are 0-based as in the code, so *)
(* chars[current] of the code is chars[current + 1] here.                  *)
(***************************************************************************)
EXTENDS Integers, Sequences, FiniteSets, TLC

VARIABLES content_lines, line_num, all_output, stdout, pc,
          chars, current, tokens, presult, written

vars == <<content_lines, line_num, all_output, stdout, pc,
          chars, current, tokens, presult, written>>

(***************************************************************************)
(* Bounds of the model.                                                    *)
(***************************************************************************)
MaxLineLen == 4
MaxTokens == 6
MaxLines == 3

(***************************************************************************)
(* Characters.  VT stands for U+000B, which char::is_whitespace (used by   *)
(* str::trim) accepts and char::is_ascii_whitespace does not.              *)
(***************************************************************************)
VT == "VT"

Letters ==
    {"a", "b", "c", "d", "e", "f", "g", "h", "i", "j", "k", "l", "m",
     "n", "o", "p", "q", "r", "s", "t", "u", "v", "w", "x", "y", "z",
     "A", "B", "C", "D", "E", "F", "G", "H", "I", "J", "K", "L", "M",
     "N", "O", "P", "Q", "R", "S", "T", "U", "V", "W", "X", "Y", "Z"}

Digits == {"0", "1", "2", "3", "4", "5", "6", "7", "8", "9"}

AsciiWhitespace == {" ", "\t", "\n", "\f", "\r"}

is_ascii_digit(c) == c \in Digits

is_ascii_alphabetic(c) == c \in Letters

is_ascii_whitespace(c) == c \in AsciiWhitespace

is_whitespace(c) == c \in AsciiWhitespace \cup {VT}

(***************************************************************************)
(* Token                                                                   *)
(***************************************************************************)
Identifier(s) == [kind |-> "Identifier", lexeme |-> s]

Number(s) == [kind |-> "Number", lexeme |-> s]

Plus == [kind |-> "Plus"]

Star == [kind |-> "Star"]

Bopen == [kind |-> "Bopen"]

Bclose == [kind |-> "Bclose"]

Eof == [kind |-> "Eof"]

None == [kind |-> "None"]

to_parse_tree_string(t) ==
    CASE t.kind = "Identifier" -> "IDENTIFIER(" \o t.lexeme \o ")"
      [] t.kind = "Number" -> "NUMBER(" \o t.lexeme \o ")"
      [] t.kind = "Plus" -> "PLUS"
      [] t.kind = "Star" -> "STAR"
      [] t.kind = "Bopen" -> "BOPEN"
      [] t.kind = "Bclose" -> "BCLOSE"
      [] t.kind = "Eof" -> "EOF"

(***************************************************************************)
(* Only({F(r) : r \in {e}}) is F(e) with e evaluated once: the value of a   *)
(* call is bound to a name, as `let r = e;` binds it, before it is used.   *)
(***************************************************************************)
Only(S) == CHOOSE v \in S : TRUE

(***************************************************************************)
(* Scanner.  The operators take the Scanner's fields (chars, current) and  *)
(* return what the method leaves in them, with the method's result.        *)
(***************************************************************************)
\* mutant: no whitespace is skipped
skip_whitespace_none(cs, cur) == cur

RECURSIVE skip_whitespace(_, _)
skip_whitespace(cs, cur) ==
    IF cur < Len(cs) /\ is_ascii_whitespace(cs[cur + 1])
    THEN skip_whitespace(cs, cur + 1)
    ELSE cur

RECURSIVE munch_digits(_, _, _)
munch_digits(cs, cur, lexeme) ==
    IF cur < Len(cs) /\ is_ascii_digit(cs[cur + 1])
    THEN munch_digits(cs, cur + 1, lexeme \o cs[cur + 1])
    ELSE [lexeme |-> lexeme, current |-> cur]

\* mutant: an identifier also takes the digits that follow it
RECURSIVE munch_alnum(_, _, _)
munch_alnum(cs, cur, lexeme) ==
    IF cur < Len(cs) /\ (is_ascii_alphabetic(cs[cur + 1]) \/ is_ascii_digit(cs[cur + 1]))
    THEN munch_alnum(cs, cur + 1, lexeme \o cs[cur + 1])
    ELSE [lexeme |-> lexeme, current |-> cur]

RECURSIVE munch_letters(_, _, _)
munch_letters(cs, cur, lexeme) ==
    IF cur < Len(cs) /\ is_ascii_alphabetic(cs[cur + 1])
    THEN munch_letters(cs, cur + 1, lexeme \o cs[cur + 1])
    ELSE [lexeme |-> lexeme, current |-> cur]

scan_token(cs, cur0) ==
    LET cur == skip_whitespace(cs, cur0) IN
    IF cur >= Len(cs)
    THEN [tok |-> Eof, current |-> cur]
    ELSE LET c == cs[cur + 1] IN
         CASE c = "+" -> [tok |-> Plus, current |-> cur + 1]
           [] c = "*" -> [tok |-> Star, current |-> cur + 1]
           [] c = "(" -> [tok |-> Bopen, current |-> cur + 1]
           [] c = ")" -> [tok |-> Bclose, current |-> cur + 1]
           [] is_ascii_digit(c) ->
                LET m == munch_digits(cs, cur + 1, c)
                IN  [tok |-> Number(m.lexeme), current |-> m.current]
           [] is_ascii_alphabetic(c) ->
                LET m == munch_letters(cs, cur + 1, c)
                IN  [tok |-> Identifier(m.lexeme), current |-> m.current]
           [] OTHER -> [tok |-> None, current |-> cur + 1]

RECURSIVE scan_all_from(_, _, _)
scan_all_from(cs, cur, toks) ==
    LET r == scan_token(cs, cur) IN
    IF r.tok = None THEN toks
    ELSE IF r.tok = Eof THEN Append(toks, r.tok)
    ELSE scan_all_from(cs, r.current, Append(toks, r.tok))

scan_all(cs) == scan_all_from(cs, 0, <<>>)

(***************************************************************************)
(* ParseNode                                                               *)
(***************************************************************************)
NonTerminal(name, children) ==
    [type |-> "NonTerminal", name |-> name, children |-> children]

Terminal(t) == [type |-> "Terminal", token |-> t]

Epsilon == [type |-> "Epsilon"]

(***************************************************************************)
(* Parser.  p is the Parser's cursor with a log of what was done to it:    *)
(* every peek and every entry of a nonterminal's function with the cursor  *)
(* it saw, every consume with the cursor it left.  An index past the end   *)
(* of the Vec panics; a panic is the result "Panic".                       *)
(***************************************************************************)
Ev(op, nt, at) == [op |-> op, nt |-> nt, at |-> at]

ParserNew == [current |-> 0, log |-> <<>>]

St(r) == [current |-> r.current, log |-> r.log]

Ok(node, p) ==
    [res |-> "Ok", node |-> node, current |-> p.current, log |-> p.log]

Err(msg, found, p) ==
    [res |-> "Err", err |-> [msg |-> msg, found |-> found],
     current |-> p.current, log |-> p.log]

Panic(p) == [res |-> "Panic", current |-> p.current, log |-> p.log]

Enter(p, nt) == [p EXCEPT !.log = Append(@, Ev("enter", nt, p.current))]

can_index(toks, i) == i < Len(toks)

logged_peek(p, nt) == [p EXCEPT !.log = Append(@, Ev("peek", nt, p.current))]

peek(toks, p) == toks[p.current + 1]

consume(p, nt) ==
    [current |-> p.current + 1,
     log |-> Append(p.log, Ev("consume", nt, p.current + 1))]

ExprdashFollow == {"Bclose", "Eof"}

\* mutants of the lookahead sets: TERMDASH that takes an operand for the end of
\* the term, TERMDASH that forgets '+', FACTOR that takes any token but '(' for
\* an operand
TermdashFollow_Operands == {"Plus", "Bclose", "Eof", "Identifier", "Number"}

TermdashFollow_NoPlus == {"Bclose", "Eof"}

TermdashFollow == {"Plus", "Bclose", "Eof"}

FactorLeaf_Eof == {"Identifier", "Number", "Eof"}

FactorLeaf == {"Identifier", "Number"}

\* vec![a?, b?] of a nonterminal whose children are two nonterminals
node2(name, r1, r2) ==
    IF r2.res # "Ok" THEN r2
    ELSE Ok(NonTerminal(name, <<r1.node, r2.node>>), St(r2))

\* mutant: the consumed token is not made a child
node3_noleaf(name, t, r1, r2) ==
    IF r2.res # "Ok" THEN r2
    ELSE Ok(NonTerminal(name, <<r1.node, r2.node>>), St(r2))

\* vec![Terminal(consume()), a?, b?]
node3(name, t, r1, r2) ==
    IF r2.res # "Ok" THEN r2
    ELSE Ok(NonTerminal(name, <<Terminal(t), r1.node, r2.node>>), St(r2))

RECURSIVE parse_expr(_, _)
RECURSIVE parse_exprdash(_, _)
RECURSIVE parse_term(_, _)
RECURSIVE parse_termdash(_, _)
RECURSIVE parse_factor(_, _)

\* parse_expr after self.parse_term() returned r1
expr_rest(toks, r1) ==
    IF r1.res # "Ok" THEN r1
    ELSE Only({node2("EXPR", r1, r2) :
               r2 \in {parse_exprdash(toks, St(r1))}})

parse_expr(toks, p0) ==
    Only({expr_rest(toks, r1) :
          r1 \in {parse_term(toks, Enter(p0, "EXPR"))}})

\* parse_exprdash, Plus arm, after self.parse_term() returned r1
exprdash_rest(toks, t, r1) ==
    IF r1.res # "Ok" THEN r1
    ELSE Only({node3("EXPRDASH", t, r1, r2) :
               r2 \in {parse_exprdash(toks, St(r1))}})

\* parse_exprdash: the match on the token t that self.peek() returned
exprdash_match(toks, p, t) ==
    IF t.kind = "Plus"
    THEN Only({exprdash_rest(toks, t, r1) :
               r1 \in {parse_term(toks, consume(p, "EXPRDASH"))}})
    ELSE IF t.kind \in ExprdashFollow
    THEN Ok(NonTerminal("EXPRDASH", <<Epsilon>>), p)
    ELSE Err("Parse Error in EXPRDASH: Expected '+', ')', or EOF, found ", t, p)

exprdash_peek(toks, p) ==
    IF ~can_index(toks, p.current) THEN Panic(p)
    ELSE exprdash_match(toks, p, peek(toks, p))

parse_exprdash(toks, p0) ==
    Only({exprdash_peek(toks, p) :
          p \in {logged_peek(Enter(p0, "EXPRDASH"), "EXPRDASH")}})

\* parse_term after self.parse_factor() returned r1
term_rest(toks, r1) ==
    IF r1.res # "Ok" THEN r1
    ELSE Only({node2("TERM", r1, r2) :
               r2 \in {parse_termdash(toks, St(r1))}})

parse_term(toks, p0) ==
    Only({term_rest(toks, r1) :
          r1 \in {parse_factor(toks, Enter(p0, "TERM"))}})

\* parse_termdash, Star arm, after self.parse_factor() returned r1
termdash_rest(toks, t, r1) ==
    IF r1.res # "Ok" THEN r1
    ELSE Only({node3("TERMDASH", t, r1, r2) :
               r2 \in {parse_termdash(toks, St(r1))}})

\* parse_termdash: the match on the token t that self.peek() returned
termdash_match(toks, p, t) ==
    IF t.kind = "Star"
    THEN Only({termdash_rest(toks, t, r1) :
               r1 \in {parse_factor(toks, consume(p, "TERMDASH"))}})
    ELSE IF t.kind \in TermdashFollow
    THEN Ok(NonTerminal("TERMDASH", <<Epsilon>>), p)
    ELSE Err("Parse Error in TERMDASH: Expected '*', '+', ')', or EOF, found ", t, p)

termdash_peek(toks, p) ==
    IF ~can_index(toks, p.current) THEN Panic(p)
    ELSE termdash_match(toks, p, peek(toks, p))

parse_termdash(toks, p0) ==
    Only({termdash_peek(toks, p) :
          p \in {logged_peek(Enter(p0, "TERMDASH"), "TERMDASH")}})

\* parse_factor, Bopen arm: the check for ')' at cursor q and the push of it
factor_close(toks, open, r1, q) ==
    IF ~can_index(toks, q.current) THEN Panic(q)
    ELSE IF peek(toks, q).kind # "Bclose"
    THEN Err("Parse Error in FACTOR: Expected ')', found ", peek(toks, q), q)
    ELSE Ok(NonTerminal("FACTOR",
                        <<Terminal(open), r1.node, Terminal(peek(toks, q))>>),
            consume(q, "FACTOR"))

\* parse_factor, Bopen arm, after self.parse_expr() returned r1
factor_rest(toks, open, r1) ==
    IF r1.res # "Ok" THEN r1
    ELSE factor_close(toks, open, r1, logged_peek(St(r1), "FACTOR"))

\* parse_factor: the match on the token t that self.peek() returned
factor_match(toks, p, t) ==
    IF t.kind = "Bopen"
    THEN Only({factor_rest(toks, t, r1) :
               r1 \in {parse_expr(toks, consume(p, "FACTOR"))}})
    ELSE IF t.kind \in FactorLeaf
    THEN Ok(NonTerminal("FACTOR", <<Terminal(t)>>), consume(p, "FACTOR"))
    ELSE Err("Parse Error in FACTOR: Expected '(', Identifier, or Number, found ",
             t, p)

factor_peek(toks, p) ==
    IF ~can_index(toks, p.current) THEN Panic(p)
    ELSE factor_match(toks, p, peek(toks, p))

parse_factor(toks, p0) ==
    Only({factor_peek(toks, p) :
          p \in {logged_peek(Enter(p0, "FACTOR"), "FACTOR")}})

\* parse: the check for Eof at cursor p after self.parse_expr() returned Ok(root)
parse_eof(toks, root, p) ==
    IF ~can_index(toks, p.current) THEN Panic(p)
    ELSE IF peek(toks, p).kind = "Eof"
    THEN Ok(root, consume(p, "parse"))
    ELSE Err("Parse Error: Extra token found starting at ", peek(toks, p), p)

\* parse after self.parse_expr() returned r
parse_rest(toks, r) ==
    IF r.res # "Ok" THEN r
    ELSE parse_eof(toks, r.node, logged_peek(St(r), "parse"))

parse(toks) ==
    Only({parse_rest(toks, r) :
          r \in {parse_expr(toks, Enter(ParserNew, "parse"))}})

(***************************************************************************)
(* ParseNode::to_bfs_string: the two queues, one level per outer round.    *)
(***************************************************************************)
\* mutant: a separator after every label, the last one too
RECURSIVE join_trailing(_, _)
join_trailing(strs, sep) ==
    IF Len(strs) = 0 THEN ""
    ELSE strs[1] \o sep \o join_trailing(Tail(strs), sep)

RECURSIVE join(_, _)
join(strs, sep) ==
    IF Len(strs) = 0 THEN ""
    ELSE IF Len(strs) = 1 THEN strs[1]
    ELSE strs[1] \o sep \o join(Tail(strs), sep)

RECURSIVE bfs_level(_, _, _)
bfs_level(current_level_queue, next_level_queue, level_output) ==
    IF current_level_queue = <<>>
    THEN [next_level_queue |-> next_level_queue, level_output |-> level_output]
    ELSE LET node == Head(current_level_queue) IN
         CASE node.type = "NonTerminal" ->
                bfs_level(Tail(current_level_queue),
                          next_level_queue \o node.children,
                          Append(level_output, node.name))
           [] node.type = "Terminal" ->
                bfs_level(Tail(current_level_queue), next_level_queue,
                          Append(level_output, to_parse_tree_string(node.token)))
           [] node.type = "Epsilon" ->
                bfs_level(Tail(current_level_queue), next_level_queue,
                          Append(level_output, "EPSILON"))

RECURSIVE bfs_rounds(_, _)
bfs_rounds(current_level_queue, result) ==
    IF current_level_queue = <<>> THEN result
    ELSE Only({bfs_rounds(l.next_level_queue,
                          IF l.level_output # <<>>
                          THEN result \o join(l.level_output, " ") \o "\n"
                          ELSE result) :
               l \in {bfs_level(current_level_queue, <<>>, <<>>)}})

to_bfs_string(root) == bfs_rounds(<<root>>, "")

(***************************************************************************)
(* main, from the loop over content.lines() to fs::write.                  *)
(***************************************************************************)
trim_is_empty(line) == \A i \in 1..Len(line) : is_whitespace(line[i])

tokens_rejected(toks) == IF toks = <<>> THEN TRUE ELSE toks[Len(toks)] # Eof

NoResult == [res |-> "None"]

NotWritten == [attempted |-> FALSE]

\* for: the iterator is exhausted
ForDone ==
    /\ pc = "for"
    /\ line_num = Len(content_lines)
    /\ pc' = "write"
    /\ UNCHANGED <<content_lines, line_num, all_output, stdout, chars, current,
                   tokens, presult, written>>

\* for: a blank line, continue
SkipBlank ==
    /\ pc = "for"
    /\ line_num < Len(content_lines)
    /\ trim_is_empty(content_lines[line_num + 1])
    /\ line_num' = line_num + 1
    /\ UNCHANGED <<content_lines, all_output, stdout, pc, chars, current,
                   tokens, presult, written>>

\* Scanner::new(line), and scan_all up to its loop
ScannerNew ==
    /\ pc = "for"
    /\ line_num < Len(content_lines)
    /\ ~trim_is_empty(content_lines[line_num + 1])
    /\ chars' = content_lines[line_num + 1]
    /\ current' = 0
    /\ tokens' = <<>>
    /\ pc' = "scan_all"
    /\ UNCHANGED <<content_lines, line_num, all_output, stdout, presult,
                   written>>

\* scan_all: one round of the loop, Some(token) that is not Eof
ScanPush ==
    /\ pc = "scan_all"
    /\ LET r == scan_token(chars, current) IN
       /\ r.tok \notin {None, Eof}
       /\ tokens' = Append(tokens, r.tok)
       /\ current' = r.current
    /\ UNCHANGED <<content_lines, line_num, all_output, stdout, pc, chars,
                   presult, written>>

\* mutant: Eof is pushed and the loop goes on
ScanEof_NoBreak ==
    /\ pc = "scan_all"
    /\ LET r == scan_token(chars, current) IN
       /\ r.tok = Eof
       /\ tokens' = Append(tokens, r.tok)
       /\ current' = r.current
    /\ UNCHANGED <<content_lines, line_num, all_output, stdout, pc, chars,
                   presult, written>>

\* scan_all: Some(Eof) is pushed and the loop breaks
ScanEof ==
    /\ pc = "scan_all"
    /\ LET r == scan_token(chars, current) IN
       /\ r.tok = Eof
       /\ tokens' = Append(tokens, r.tok)
       /\ current' = r.current
    /\ pc' = "scanned"
    /\ UNCHANGED <<content_lines, line_num, all_output, stdout, chars,
                   presult, written>>

\* mutant: on None the loop goes on after the character
ScanNone_Resume ==
    /\ pc = "scan_all"
    /\ LET r == scan_token(chars, current) IN
       /\ r.tok = None
       /\ current' = r.current
    /\ UNCHANGED <<content_lines, line_num, all_output, stdout, pc, chars, tokens,
                   presult, written>>

\* scan_all: None, the loop breaks
ScanNone ==
    /\ pc = "scan_all"
    /\ LET r == scan_token(chars, current) IN
       /\ r.tok = None
       /\ current' = r.current
    /\ pc' = "scanned"
    /\ UNCHANGED <<content_lines, line_num, all_output, stdout, chars, tokens,
                   presult, written>>

\* the end of one round of the for loop: its locals (scanner, tokens, the parse
\* result) are dropped and the iterator moves to the next line
EndOfRound ==
    /\ line_num' = line_num + 1
    /\ pc' = "for"
    /\ chars' = <<>>
    /\ current' = 0
    /\ tokens' = <<>>
    /\ presult' = NoResult

\* main: the tokens do not end in Eof, continue
ScanError ==
    /\ pc = "scanned"
    /\ tokens_rejected(tokens)
    /\ EndOfRound
    /\ UNCHANGED <<content_lines, all_output, stdout, written>>

\* main: Parser::new(tokens).parse(); a panic ends the process
ParseLine ==
    /\ pc = "scanned"
    /\ ~tokens_rejected(tokens)
    /\ LET r == parse(tokens) IN
       /\ presult' = r
       /\ pc' = IF r.res = "Panic" THEN "panic" ELSE "parsed"
    /\ UNCHANGED <<content_lines, line_num, all_output, stdout, chars, current,
                   tokens, written>>

\* main: Ok(root), the block is printed and appended
ParseOk ==
    /\ pc = "parsed"
    /\ presult.res = "Ok"
    /\ \E bfs_string \in {to_bfs_string(presult.node)} :
          /\ stdout' = stdout \o bfs_string
          /\ all_output' = all_output \o bfs_string
    /\ EndOfRound
    /\ UNCHANGED <<content_lines, written>>

\* mutant: the first parse error returns from main
ParseErr_Return ==
    /\ pc = "parsed"
    /\ presult.res = "Err"
    /\ pc' = "exit"
    /\ UNCHANGED <<content_lines, line_num, all_output, stdout, chars, current,
                   tokens, presult, written>>

\* main: Err(e), nothing is appended
ParseErr ==
    /\ pc = "parsed"
    /\ presult.res = "Err"
    /\ EndOfRound
    /\ UNCHANGED <<content_lines, all_output, stdout, written>>

\* main: fs::write(&output_path, all_output), which succeeds or fails
WriteOutput ==
    /\ pc = "write"
    /\ \E ok \in BOOLEAN :
         written' = [attempted |-> TRUE, data |-> all_output, ok |-> ok]
    /\ pc' = "exit"
    /\ UNCHANGED <<content_lines, line_num, all_output, stdout, chars, current,
                   tokens, presult>>

(***************************************************************************)
(* The files read.  Spec runs main on every one-line file of at most       *)
(* MaxLineLen characters and on every file of at most MaxLines lines drawn *)
(* from FileLines.                                                         *)
(***************************************************************************)
SeqsUpTo(S, n) == UNION {[1..k -> S] : k \in 0..n}

Alphabet == {"a", "b", "1", "+", "*", "(", ")", " ", VT, "#"}

FileLines ==
    { <<>>, <<" ">>, <<"a", "#", "b">>, <<"a", " ", "b">>, <<"1">>,
      <<"(", "a", ")">> }

Files ==
    {<<l>> : l \in SeqsUpTo(Alphabet, MaxLineLen)} \cup SeqsUpTo(FileLines, MaxLines)

Init ==
    /\ content_lines \in Files
    /\ line_num = 0
    /\ all_output = ""
    /\ stdout = ""
    /\ pc = "for"
    /\ chars = <<>>
    /\ current = 0
    /\ tokens = <<>>
    /\ presult = NoResult
    /\ written = NotWritten

Next ==
    \/ ForDone
    \/ SkipBlank
    \/ ScannerNew
    \/ ScanPush
    \/ ScanEof
    \/ ScanNone
    \/ ScanError
    \/ ParseLine
    \/ ParseOk
    \/ ParseErr
    \/ WriteOutput

Spec == Init /\ [][Next]_vars

\* main is one thread that runs to its end
FairSpec == Spec /\ WF_vars(Next)

(***************************************************************************)
(* SpecParse starts main where scan_all has returned the tokens of a line  *)
(* of at most MaxTokens tokens, written with one space between tokens, and *)
(* runs it to the end of that line's round of the loop.                    *)
(***************************************************************************)
TokenTexts ==
    { [tok |-> Identifier("a"), text |-> <<"a">>],
      [tok |-> Number("1"), text |-> <<"1">>],
      [tok |-> Plus, text |-> <<"+">>],
      [tok |-> Star, text |-> <<"*">>],
      [tok |-> Bopen, text |-> <<"(">>],
      [tok |-> Bclose, text |-> <<")">>] }

RECURSIVE spaced(_)
spaced(ts) ==
    IF Len(ts) = 0 THEN <<>>
    ELSE IF Len(ts) = 1 THEN ts[1].text
    ELSE ts[1].text \o <<" ">> \o spaced(Tail(ts))

InitParse ==
    \E ts \in SeqsUpTo(TokenTexts, MaxTokens) \ {<<>>} :
        /\ content_lines = <<spaced(ts)>>
        /\ line_num = 0
        /\ all_output = ""
        /\ stdout = ""
        /\ pc = "scanned"
        /\ chars = spaced(ts)
        /\ current = Len(spaced(ts))
        /\ tokens = [i \in 1..Len(ts) |-> ts[i].tok] \o <<Eof>>
        /\ presult = NoResult
        /\ written = NotWritten

NextParse ==
    \/ ParseLine
    \/ ParseOk
    \/ ParseErr

SpecParse == InitParse /\ [][NextParse]_vars

(***************************************************************************)
(* The grammar, as derivability of a sequence of token kinds.              *)
(***************************************************************************)
RECURSIVE DerivesEXPR(_)
RECURSIVE DerivesEXPRDASH(_)
RECURSIVE DerivesTERM(_)
RECURSIVE DerivesTERMDASH(_)
RECURSIVE DerivesFACTOR(_)

DerivesEXPR(w) ==
    \E i \in 0..Len(w) :
        DerivesTERM(SubSeq(w, 1, i)) /\ DerivesEXPRDASH(SubSeq(w, i + 1, Len(w)))

DerivesEXPRDASH(w) ==
    IF Len(w) = 0 THEN TRUE
    ELSE /\ w[1] = "Plus"
         /\ \E i \in 1..Len(w) :
               DerivesTERM(SubSeq(w, 2, i)) /\ DerivesEXPRDASH(SubSeq(w, i + 1, Len(w)))

DerivesTERM(w) ==
    \E i \in 0..Len(w) :
        DerivesFACTOR(SubSeq(w, 1, i)) /\ DerivesTERMDASH(SubSeq(w, i + 1, Len(w)))

DerivesTERMDASH(w) ==
    IF Len(w) = 0 THEN TRUE
    ELSE /\ w[1] = "Star"
         /\ \E i \in 1..Len(w) :
               DerivesFACTOR(SubSeq(w, 2, i)) /\ DerivesTERMDASH(SubSeq(w, i + 1, Len(w)))

DerivesFACTOR(w) ==
    IF Len(w) = 1 THEN w[1] \in {"Identifier", "Number"}
    ELSE IF Len(w) >= 3
    THEN /\ w[1] = "Bopen"
         /\ w[Len(w)] = "Bclose"
         /\ DerivesEXPR(SubSeq(w, 2, Len(w) - 1))
    ELSE FALSE

KindsBeforeEof(toks) == [i \in 1..(Len(toks) - 1) |-> toks[i].kind]

EndsInOneEof(toks) ==
    /\ Len(toks) >= 1
    /\ toks[Len(toks)] = Eof
    /\ \A i \in 1..(Len(toks) - 1) : toks[i] # Eof

Parsed == presult # NoResult

\* C1: on the tokens of a scanned line, parse returns Ok exactly when the tokens
\* before Eof are derivable from EXPR, and Err in every other case.
C1_ParseRecognizesGrammar ==
    Parsed =>
        /\ EndsInOneEof(tokens)
        /\ presult.res \in {"Ok", "Err"}
        /\ (presult.res = "Ok") <=> DerivesEXPR(KindsBeforeEof(tokens))

C1_Witness ==
    /\ Parsed
    /\ presult.res = "Ok"
    /\ KindsBeforeEof(tokens) = <<"Bopen", "Identifier", "Plus", "Number", "Bclose">>

\* C5: parse never indexes the tokens past their end: every peek is made with
\* current < tokens.len() and every consume leaves current <= tokens.len(),
\* whether the line is accepted or rejected.
C5_CursorInBounds ==
    Parsed =>
        /\ EndsInOneEof(tokens)
        /\ presult.res # "Panic"
        /\ presult.current <= Len(tokens)
        /\ \A i \in 1..Len(presult.log) :
              /\ presult.log[i].op = "peek" => presult.log[i].at < Len(tokens)
              /\ presult.log[i].op = "consume" => presult.log[i].at <= Len(tokens)
              /\ presult.log[i].op = "enter" => presult.log[i].at < Len(tokens)

\* an accepting run has consumed the Eof, the last token
C5_Witness ==
    /\ Parsed
    /\ presult.res = "Ok"
    /\ Len(tokens) = 4
    /\ presult.log[Len(presult.log)] = Ev("consume", "parse", Len(tokens))

(***************************************************************************)
(* The shape of a tree: every NonTerminal is one production of the grammar.*)
(***************************************************************************)
IsLeaf(n, kind) == n.type = "Terminal" /\ n.token.kind = kind

IsNT(n, name) == n.type = "NonTerminal" /\ n.name = name

RECURSIVE IsProduction(_)
IsProduction(n) ==
    /\ n.type = "NonTerminal"
    /\ Len(n.children) >= 1
    /\ CASE n.name = "EXPR" ->
              /\ Len(n.children) = 2
              /\ IsNT(n.children[1], "TERM")
              /\ IsNT(n.children[2], "EXPRDASH")
         [] n.name = "EXPRDASH" ->
              \/ n.children = <<Epsilon>>
              \/ /\ Len(n.children) = 3
                 /\ IsLeaf(n.children[1], "Plus")
                 /\ IsNT(n.children[2], "TERM")
                 /\ IsNT(n.children[3], "EXPRDASH")
         [] n.name = "TERM" ->
              /\ Len(n.children) = 2
              /\ IsNT(n.children[1], "FACTOR")
              /\ IsNT(n.children[2], "TERMDASH")
         [] n.name = "TERMDASH" ->
              \/ n.children = <<Epsilon>>
              \/ /\ Len(n.children) = 3
                 /\ IsLeaf(n.children[1], "Star")
                 /\ IsNT(n.children[2], "FACTOR")
                 /\ IsNT(n.children[3], "TERMDASH")
         [] n.name = "FACTOR" ->
              \/ /\ Len(n.children) = 3
                 /\ IsLeaf(n.children[1], "Bopen")
                 /\ IsNT(n.children[2], "EXPR")
                 /\ IsLeaf(n.children[3], "Bclose")
              \/ /\ Len(n.children) = 1
                 /\ \/ IsLeaf(n.children[1], "Identifier")
                    \/ IsLeaf(n.children[1], "Number")
         [] OTHER -> FALSE
    /\ \A i \in 1..Len(n.children) :
          n.children[i].type = "NonTerminal" => IsProduction(n.children[i])

\* the terminals of a tree, left to right
RECURSIVE Frontier(_)
RECURSIVE FrontierOfAll(_)
Frontier(n) ==
    CASE n.type = "Terminal" -> <<n.token>>
      [] n.type = "Epsilon" -> <<>>
      [] n.type = "NonTerminal" -> FrontierOfAll(n.children)

FrontierOfAll(ns) ==
    IF Len(ns) = 0 THEN <<>> ELSE Frontier(Head(ns)) \o FrontierOfAll(Tail(ns))

\* C9: a tree returned by a successful parse is rooted at EXPR, every NonTerminal
\* in it has the non-empty children of exactly one production, and its leaves are
\* the tokens before Eof, so that no Eof is a leaf.
C9_TreeIsDerivation ==
    (Parsed /\ presult.res = "Ok") =>
        /\ IsNT(presult.node, "EXPR")
        /\ IsProduction(presult.node)
        /\ Frontier(presult.node) = SubSeq(tokens, 1, Len(tokens) - 1)

\* a + 1 * a: the STAR is under the TERMDASH of the second TERM, and the first
\* TERM's TERMDASH is empty
C9_Witness ==
    /\ Parsed
    /\ presult.res = "Ok"
    /\ KindsBeforeEof(tokens) = <<"Identifier", "Plus", "Number", "Star", "Identifier">>
    /\ presult.node.children[1].children[2].children = <<Epsilon>>
    /\ IsLeaf(presult.node.children[2].children[2].children[2].children[1], "Star")

(***************************************************************************)
(* The rendering of a tree, level by level: the labels at depth k are      *)
(* collected by a descent that keeps the children's order.                 *)
(***************************************************************************)
Label(n) ==
    CASE n.type = "NonTerminal" -> n.name
      [] n.type = "Terminal" -> to_parse_tree_string(n.token)
      [] n.type = "Epsilon" -> "EPSILON"

RECURSIVE LabelsAtDepth(_, _)
RECURSIVE LabelsAtDepthOfAll(_, _)
LabelsAtDepth(n, k) ==
    IF k = 0 THEN <<Label(n)>>
    ELSE IF n.type = "NonTerminal" THEN LabelsAtDepthOfAll(n.children, k - 1)
    ELSE <<>>

LabelsAtDepthOfAll(ns, k) ==
    IF Len(ns) = 0 THEN <<>>
    ELSE LabelsAtDepth(Head(ns), k) \o LabelsAtDepthOfAll(Tail(ns), k)

RECURSIVE SpaceSeparated(_)
SpaceSeparated(labels) ==
    IF Len(labels) = 1 THEN labels[1]
    ELSE labels[1] \o " " \o SpaceSeparated(Tail(labels))

RECURSIVE LevelLines(_, _)
LevelLines(n, k) ==
    IF LabelsAtDepth(n, k) = <<>> THEN ""
    ELSE SpaceSeparated(LabelsAtDepth(n, k)) \o "\n" \o LevelLines(n, k + 1)

\* C6: to_bfs_string returns one newline-terminated line per depth level, from
\* depth 0 to the deepest, line k being the labels of the nodes at depth k from
\* left to right joined by single spaces, and nothing else.
C6_BfsIsLevelOrder ==
    [][(pc = "parsed" /\ presult.res = "Ok") =>
          all_output' = all_output \o LevelLines(presult.node, 0)]_vars

\* the block of ( a ) * 1
C6_Witness ==
    /\ pc = "for"
    /\ line_num = 1
    /\ content_lines = << <<"(", " ", "a", " ", ")", " ", "*", " ", "1">> >>
    /\ all_output = "EXPR\n"
                       \o "TERM EXPRDASH\n"
                       \o "FACTOR TERMDASH EPSILON\n"
                       \o "BOPEN EXPR BCLOSE STAR FACTOR TERMDASH\n"
                       \o "TERM EXPRDASH NUMBER(1) EPSILON\n"
                       \o "FACTOR TERMDASH EPSILON\n"
                       \o "IDENTIFIER(a) EPSILON\n"

ExtraTokenMsg == "Parse Error: Extra token found starting at "

TermdashMsg == "Parse Error in TERMDASH: Expected '*', '+', ')', or EOF, found "

Operands == {"Identifier", "Number"}

\* C4 as stated: two adjacent operands (tokens Identifier, Identifier, Eof) fail
\* with the "extra token" error of the top-level parse.
C4_ExtraTokenOnAdjacentOperands ==
    (Parsed /\ KindsBeforeEof(tokens) = <<"Identifier", "Identifier">>) =>
        (presult.res = "Err" /\ presult.err.msg = ExtraTokenMsg)

\* C4 amended: a line that begins with two adjacent operands fails in
\* parse_termdash, with its error naming the second operand, before parse's check
\* for Eof is reached; an error found at an operand is always that of TERMDASH,
\* and the "extra token" error is only ever found at a ')'.
C4_TermdashErrorOnAdjacentOperands ==
    Parsed =>
        /\ (Len(tokens) >= 3 /\ tokens[1].kind \in Operands /\ tokens[2].kind \in Operands)
              => /\ presult.res = "Err"
                 /\ presult.err = [msg |-> TermdashMsg, found |-> tokens[2]]
                 /\ presult.current = 1
        /\ (presult.res = "Err" /\ presult.err.found.kind \in Operands)
              => presult.err.msg = TermdashMsg
        /\ (presult.res = "Err" /\ presult.err.msg = ExtraTokenMsg)
              => presult.err.found = Bclose

C4_Witness ==
    /\ Parsed
    /\ KindsBeforeEof(tokens) = <<"Identifier", "Identifier">>
    /\ presult.res = "Err"
    /\ presult.err.msg = TermdashMsg

(***************************************************************************)
(* The characters the scanner recognizes, and the tokens of a line as its  *)
(* maximal runs: a token starts at every bracket or operator and at every  *)
(* letter or digit that does not continue a run of its own class.          *)
(***************************************************************************)
IsSymbol(c) == c \in {"+", "*", "(", ")"}

Recognized(c) ==
    is_ascii_whitespace(c) \/ is_ascii_alphabetic(c) \/ is_ascii_digit(c) \/ IsSymbol(c)

\* the index of the first unrecognized character, 0 when there is none
FirstBad(cs) ==
    IF \A i \in 1..Len(cs) : Recognized(cs[i]) THEN 0
    ELSE CHOOSE i \in 1..Len(cs) :
            ~Recognized(cs[i]) /\ \A j \in 1..(i - 1) : Recognized(cs[j])

BeforeFirstBad(cs) == IF FirstBad(cs) = 0 THEN cs ELSE SubSeq(cs, 1, FirstBad(cs) - 1)

Class(c) ==
    IF is_ascii_alphabetic(c) THEN "letter"
    ELSE IF is_ascii_digit(c) THEN "digit"
    ELSE IF IsSymbol(c) THEN "symbol"
    ELSE "other"

StartsRun(cs, i) ==
    \/ Class(cs[i]) = "symbol"
    \/ /\ Class(cs[i]) \in {"letter", "digit"}
       /\ (i = 1 \/ Class(cs[i - 1]) # Class(cs[i]))

RunEnd(cs, i) ==
    CHOOSE j \in i..Len(cs) :
        /\ \A k \in i..j : Class(cs[k]) = Class(cs[i])
        /\ (j = Len(cs) \/ Class(cs[j + 1]) # Class(cs[i]))

RECURSIVE Text(_, _, _)
Text(cs, i, j) == IF i > j THEN "" ELSE cs[i] \o Text(cs, i + 1, j)

RunToken(cs, i) ==
    CASE cs[i] = "+" -> Plus
      [] cs[i] = "*" -> Star
      [] cs[i] = "(" -> Bopen
      [] cs[i] = ")" -> Bclose
      [] Class(cs[i]) = "letter" -> Identifier(Text(cs, i, RunEnd(cs, i)))
      [] Class(cs[i]) = "digit" -> Number(Text(cs, i, RunEnd(cs, i)))

RECURSIVE MaximalRuns(_, _)
MaximalRuns(cs, i) ==
    IF i > Len(cs) THEN <<>>
    ELSE IF StartsRun(cs, i) THEN <<RunToken(cs, i)>> \o MaximalRuns(cs, i + 1)
    ELSE MaximalRuns(cs, i + 1)

\* C2: a line whose characters are all recognized scans to tokens that end in
\* Eof and hold Eof exactly once.
C2_ScanEndsInOneEof ==
    (pc = "scanned" /\ FirstBad(chars) = 0) => EndsInOneEof(tokens)

C2_Witness ==
    /\ pc = "scanned"
    /\ chars = <<"a", " ", "+">>
    /\ tokens = <<Identifier("a"), Plus, Eof>>

\* C7: the tokens are the maximal runs of the line: a Number is a maximal run of
\* digits, an Identifier a maximal run of letters, letters and digits never merge
\* and one run is never split.
C7_MaximalMunch ==
    /\ scan_all(<<"a", "b", "c", "1", "2", "3">>)
          = <<Identifier("abc"), Number("123"), Eof>>
    /\ scan_all(<<"1", "2", "3", "a", "b", "c">>)
          = <<Number("123"), Identifier("abc"), Eof>>
    /\ pc = "scanned" =>
          tokens = MaximalRuns(BeforeFirstBad(chars), 1)
                      \o (IF FirstBad(chars) = 0 THEN <<Eof>> ELSE <<>>)

C7_Witness ==
    /\ pc = "scanned"
    /\ chars = <<"a", "b", "1">>
    /\ tokens = <<Identifier("ab"), Number("1"), Eof>>

\* C3: on a line with an unrecognized character the scan stops at the first one:
\* the tokens are those of the characters before it, without Eof, the line is
\* never parsed, and nothing is printed or appended for it.
C3_ScanStopsAtFirstBad ==
    /\ [](pc = "scanned" /\ FirstBad(chars) # 0 =>
             /\ current = FirstBad(chars)
             /\ tokens \o <<Eof>> = scan_all(BeforeFirstBad(chars))
             /\ tokens_rejected(tokens))
    /\ [](pc \in {"parsed", "panic"} => FirstBad(chars) = 0)
    /\ [][(all_output' # all_output \/ stdout' # stdout \/ presult' # presult)
             => FirstBad(content_lines[line_num + 1]) = 0]_vars
    /\ [][(pc = "scanned" /\ FirstBad(chars) # 0)
             => (pc' = "for" /\ line_num' = line_num + 1)]_vars

C3_Witness ==
    /\ pc = "scanned"
    /\ chars = <<"a", "#", "b">>
    /\ current = 2
    /\ tokens = <<Identifier("a")>>

(***************************************************************************)
(* The block a line contributes, and the buffer after a run of lines.      *)
(***************************************************************************)
Block(line) ==
    IF tokens_rejected(scan_all(line)) THEN ""
    ELSE IF parse(scan_all(line)).res = "Ok"
    THEN to_bfs_string(parse(scan_all(line)).node)
    ELSE ""

RECURSIVE Blocks(_)
Blocks(lines) ==
    IF Len(lines) = 0 THEN "" ELSE Block(Head(lines)) \o Blocks(Tail(lines))

LineFailed ==
    \/ pc = "scanned" /\ tokens_rejected(tokens)
    \/ pc = "parsed" /\ presult.res = "Err"

\* C8: the lines are taken in file order whatever failed before: a line that
\* fails to scan or to parse leaves the buffer as it was and the loop goes on to
\* the next line, at the end of the loop the buffer is the blocks, in file order,
\* of the lines that scanned and parsed, and the write is then always attempted.
C8_EveryLineThenWrite ==
    /\ [](pc = "for" => all_output = Blocks(SubSeq(content_lines, 1, line_num)))
    /\ [](pc \in {"write", "exit"} =>
             /\ line_num = Len(content_lines)
             /\ all_output = Blocks(content_lines))
    /\ [](pc = "exit" =>
             /\ written.attempted
             /\ written.data = Blocks(content_lines))
    /\ [](pc # "panic")
    /\ [][LineFailed =>
             /\ all_output' = all_output
             /\ line_num' = line_num + 1
             /\ pc' = "for"]_vars
    /\ <>(written.attempted)

C8_Witness ==
    /\ pc = "exit"
    /\ content_lines = << <<"1">>, <<"a", "#", "b">>, <<"(", "a", ")">> >>
    /\ written.attempted
    /\ written.data = "EXPR\nTERM EXPRDASH\nFACTOR TERMDASH EPSILON\nNUMBER(1) EPSILON\n"
                         \o Block(<<"(", "a", ")">>)

EntersAdvance(log) ==
    \A i, j \in 1..Len(log) :
        (i < j /\ log[i].op = "enter" /\ log[j].op = "enter" /\ log[i].nt = log[j].nt)
            => log[i].at < log[j].at

\* C10: a line is done with in finitely many steps: every round of scan_all's
\* loop moves the cursor forward or ends the loop, so the loop ends; parse
\* returns Ok or Err, and a nonterminal's function is entered again only after a
\* token was consumed, so there are at most tokens.len() entries of each.
C10_LineTerminates ==
    /\ [][pc = "scan_all" => (current' > current \/ pc' = "scanned")]_vars
    /\ [](current <= Len(chars) /\ Len(tokens) <= Len(chars) + 1)
    /\ [](Parsed =>
             /\ presult.res \in {"Ok", "Err"}
             /\ EntersAdvance(presult.log)
             /\ Len(presult.log) <= 12 * Len(tokens))
    /\ (pc = "scan_all" ~> pc = "scanned")
    /\ (pc = "scanned" ~> pc = "for")
    /\ <>(pc = "exit")

C10_Witness ==
    /\ pc = "parsed"
    /\ chars = <<"(", "a", ")">>
    /\ \E i, j \in 1..Len(presult.log) :
          /\ i < j
          /\ presult.log[i] = Ev("enter", "EXPR", 0)
          /\ presult.log[j] = Ev("enter", "EXPR", 1)

====
